---- MODULE Spec2Model ----
(***************************************************************************)
(* A model of src/tool.py, the data-labeling tool: the session state       *)
(* (all_data, user_assignments, labels, policy_image), the files of the    *)
(* data directory, and one action per run of the script (a host run with   *)
(* at most one button pressed, a labeler run with at most one select box   *)
(* changed).                                                               *)
(***************************************************************************)
EXTENDS Integers, Sequences, FiniteSets, TLC

\* ---------------------------------------------------------------- bounds
MaxSamples == 2   \* the Sample Store holds at most this many samples
MaxTotal == 12    \* assign_data alone: largest total_samples
MaxLabelers == 4  \* assign_data alone: largest num_users

\* ------------------------------------------------------- input alphabets
\* label_options (tool.py:302); the first option is the "unset" sentinel.
unset == "unset"
label_options == <<unset, "Policy", "AdministrativeProcedure", "Terminology", "X">>
\* the options the labelers of the model pick among
LabelChoices == {label_options[1], label_options[2], label_options[5]}

\* The host uploads a corpus of pairwise different samples in order: the sample
\* that becomes index i of the store is Sample(i).
Sample(i) == [instruction |-> "q" \o ToString(i), output |-> "a" \o ToString(i)]

\* The files of one upload: one or two files, each of which either fails to
\* parse ("bad") or holds one sample ("good").
UploadInputs == {<<"good">>, <<"bad">>, <<"good", "good">>, <<"good", "bad">>,
                 <<"bad", "good">>}

\* file.read() of the files submitted when the store holds `size` samples
RECURSIVE uploaded(_, _)
uploaded(shape, size) ==
    IF shape = <<>> THEN <<>>
    ELSE IF Head(shape) = "good"
         THEN <<[ok |-> TRUE, content |-> <<Sample(size)>>]>> \o uploaded(Tail(shape), size + 1)
         ELSE <<[ok |-> FALSE, content |-> <<>>]>> \o uploaded(Tail(shape), size)

\* the numbers of labelers the host enters before pressing the partition button
NumUsersInputs == {1, 2}

\* The runs of the script happen in one of two seconds of the wall clock.
Seconds == {0, 1}

\* an uploaded policy image: its pixels and the format of its bytes
UploadedImage == {[pixels |-> "p1", format |-> "JPEG"]}

\* ------------------------------------------------------------ dictionaries
EmptyDict == [k \in {} |-> k]
DictSet(d, k, v) == [x \in (DOMAIN d) \cup {k} |-> IF x = k THEN v ELSE d[x]]
DictDel(d, k) == [x \in (DOMAIN d) \ {k} |-> d[x]]

\* str(idx) and f"user_{i+1}"
Str(idx) == ToString(idx)
UserName(n) == "user_" \o ToString(n)

\* list(range(a, b))
range(a, b) == [k \in 1..(IF b > a THEN b - a ELSE 0) |-> a + k - 1]

\* ------------------------------------------------------------------ files
\* json.dump / json.load: the text of a file, and the value it decodes to. Every
\* dictionary the tool saves has string keys (str(idx), user_<n>), which JSON keeps.
json_dump(data) == [json |-> data]
json_load(text) == text.json

\* save_data: the new content of the file written
save_data(data) == <<json_dump(data)>>

\* load_data: <<>> is None
load_data(file) == IF file = <<>> THEN <<>> ELSE <<json_load(file[1])>>

\* Python's `x or default` on the result of load_data
Or(loaded, default) == IF loaded = <<>> THEN default ELSE loaded[1]

\* datetime.now().strftime(...), at the resolution of one second
strftime_file(t) == "19700101_00000" \o ToString(t)
strftime_label(t) == "1970-01-01 00:00:0" \o ToString(t)
data_file_name(t) == "data_" \o strftime_file(t) \o ".json"

\* save_image writes the uploaded bytes as they are; Image.open decodes them;
\* Image.save to a .png path encodes the pixels as PNG.
save_image(image_file) == <<image_file>>
image_open(bytes) == [pixels |-> bytes.pixels, format |-> bytes.format]
image_save_png(image) == [pixels |-> image.pixels, format |-> "PNG"]
get_policy_image(file) == IF file = <<>> THEN <<>> ELSE <<image_open(file[1])>>

\* ------------------------------------------------------------ assign_data
RECURSIVE assign_loop(_, _, _, _, _)
assign_loop(i, num_users, total_samples, samples_per_user, assignments) ==
    IF i >= num_users THEN assignments
    ELSE LET start_idx == i * samples_per_user
             end_idx == IF i < num_users - 1 THEN start_idx + samples_per_user
                        ELSE total_samples
         IN assign_loop(i + 1, num_users, total_samples, samples_per_user,
                        DictSet(assignments, UserName(i + 1), range(start_idx, end_idx)))

\* a plausible slip: the last labeler also gets samples_per_user indices only
RECURSIVE assign_loop_even(_, _, _, _, _)
assign_loop_even(i, num_users, total_samples, samples_per_user, assignments) ==
    IF i >= num_users THEN assignments
    ELSE LET start_idx == i * samples_per_user
             end_idx == start_idx + samples_per_user
         IN assign_loop_even(i + 1, num_users, total_samples, samples_per_user,
                        DictSet(assignments, UserName(i + 1), range(start_idx, end_idx)))

assign_data_even(total_samples, num_users) ==
    assign_loop_even(0, num_users, total_samples, total_samples \div num_users, EmptyDict)

assign_data(total_samples, num_users) ==
    assign_loop(0, num_users, total_samples, total_samples \div num_users, EmptyDict)

\* ------------------------------------------------------ calculate_progress
\* st.session_state.labels.get(str(idx), {}).get('label'): "None" is None
label_value(lbls, idx) ==
    IF Str(idx) \in DOMAIN lbls THEN lbls[Str(idx)].label ELSE "None"

RECURSIVE calculate_progress(_, _)
calculate_progress(assigned_indices, lbls) ==
    IF assigned_indices = <<>> THEN 0
    ELSE (IF label_value(lbls, Head(assigned_indices)) \notin {unset, "None"} THEN 1 ELSE 0)
         + calculate_progress(Tail(assigned_indices), lbls)

\* completed / total as the ".1%" format shows it: tenths of a percent
percent(completed, total) == (2000 * completed + total) \div (2 * total)

\* the progress section of host_interface: the lines written, in the order of the
\* dictionary (user_1, user_2, ...), until the division faults
RECURSIVE host_progress_loop(_, _, _, _)
host_progress_loop(k, assignments, lbls, shown) ==
    IF k > Cardinality(DOMAIN assignments) THEN [fault |-> "none", progress |-> shown]
    ELSE LET user == UserName(k)
             assigned_indices == assignments[user]
             completed == calculate_progress(assigned_indices, lbls)
         IN IF Len(assigned_indices) = 0
            THEN [fault |-> "ZeroDivisionError", progress |-> shown]
            ELSE host_progress_loop(k + 1, assignments, lbls,
                     Append(shown, [user |-> user, completed |-> completed,
                                    total |-> Len(assigned_indices),
                                    ratio |-> percent(completed, Len(assigned_indices))]))

host_progress(assignments, lbls) ==
    IF lbls = EmptyDict THEN [fault |-> "none", progress |-> <<>>]
    ELSE host_progress_loop(1, assignments, lbls, <<>>)

\* show_info_popup: the sidebar's progress line
show_info_popup(user, assigned_indices, lbls) ==
    LET completed == calculate_progress(assigned_indices, lbls)
        progress == IF Len(assigned_indices) > 0
                    THEN percent(completed, Len(assigned_indices)) ELSE 0
    IN [fault |-> "none", user |-> user, completed |-> completed,
        total |-> Len(assigned_indices), ratio |-> progress]

\* ---------------------------------------------------- save_labels_to_excel
export_row(item, lbls, idx) ==
    LET has == Str(idx) \in DOMAIN lbls
    IN [instruction |-> item.instruction,
        output |-> item.output,
        label |-> IF has THEN lbls[Str(idx)].label ELSE "",
        labeled_by |-> IF has THEN lbls[Str(idx)].user ELSE "",
        timestamp |-> IF has THEN lbls[Str(idx)].timestamp ELSE ""]

RECURSIVE export_loop(_, _, _, _)
export_loop(idx, data, lbls, results) ==
    IF idx >= Len(data) THEN results
    ELSE export_loop(idx + 1, data, lbls,
                     Append(results, export_row(data[idx + 1], lbls, idx)))

\* a plausible slip: only the labeled samples get a row
RECURSIVE export_loop_labeled(_, _, _, _)
export_loop_labeled(idx, data, lbls, results) ==
    IF idx >= Len(data) THEN results
    ELSE export_loop_labeled(idx + 1, data, lbls,
             IF Str(idx) \in DOMAIN lbls
             THEN Append(results, export_row(data[idx + 1], lbls, idx))
             ELSE results)

save_labels_to_excel_labeled(data, lbls) == export_loop_labeled(0, data, lbls, <<>>)

save_labels_to_excel(data, lbls) == export_loop(0, data, lbls, <<>>)


\* -------------------------------------------------------------- the ledger
\* existing_label = st.session_state.labels.get(str(idx), {}).get('label', unset)
existing_label(lbls, idx) ==
    IF Str(idx) \in DOMAIN lbls THEN lbls[Str(idx)].label ELSE unset

\* a plausible slip: "unset" is stored like any other label instead of deleting
set_label_stores_unset(lbls, file, user, idx, label, t) ==
    IF label # existing_label(lbls, idx)
    THEN LET new == DictSet(lbls, Str(idx),
                        [label |-> label, user |-> user, timestamp |-> strftime_label(t)])
         IN [labels |-> new, labels_file |-> save_data(new)]
    ELSE [labels |-> lbls, labels_file |-> file]

\* a plausible slip: an existing entry keeps the labeler who first wrote it
set_label_keeps_user(lbls, file, user, idx, label, t) ==
    IF label # existing_label(lbls, idx)
    THEN LET new == IF label = unset
                    THEN (IF Str(idx) \in DOMAIN lbls THEN DictDel(lbls, Str(idx)) ELSE lbls)
                    ELSE DictSet(lbls, Str(idx),
                            [label |-> label,
                             user |-> IF Str(idx) \in DOMAIN lbls
                                      THEN lbls[Str(idx)].user ELSE user,
                             timestamp |-> strftime_label(t)])
         IN [labels |-> new, labels_file |-> save_data(new)]
    ELSE [labels |-> lbls, labels_file |-> file]

\* a plausible slip: a deletion is not written to labels.json
set_label_delete_unsaved(lbls, file, user, idx, label, t) ==
    IF label # existing_label(lbls, idx)
    THEN IF label = unset
         THEN [labels |-> IF Str(idx) \in DOMAIN lbls THEN DictDel(lbls, Str(idx)) ELSE lbls,
               labels_file |-> file]
         ELSE LET new == DictSet(lbls, Str(idx),
                            [label |-> label, user |-> user,
                             timestamp |-> strftime_label(t)])
              IN [labels |-> new, labels_file |-> save_data(new)]
    ELSE [labels |-> lbls, labels_file |-> file]

\* labeler_interface, the body of `if label != existing_label:`: the ledger and
\* labels.json after the select box of idx returned label to labeler user at time t
set_label(lbls, file, user, idx, label, t) ==
    IF label # existing_label(lbls, idx)
    THEN LET new == IF label = unset
                    THEN (IF Str(idx) \in DOMAIN lbls THEN DictDel(lbls, Str(idx)) ELSE lbls)
                    ELSE DictSet(lbls, Str(idx),
                            [label |-> label, user |-> user,
                             timestamp |-> strftime_label(t)])
         IN [labels |-> new, labels_file |-> save_data(new)]
    ELSE [labels |-> lbls, labels_file |-> file]

\* ------------------------------------------------------------------ upload
\* the loop over uploaded_files: json.loads raises at the first file that does
\* not parse; new_data holds what was parsed before it
RECURSIVE parse_files(_, _)
parse_files(files, new_data) ==
    IF files = <<>> THEN [ok |-> TRUE, new_data |-> new_data]
    ELSE IF ~Head(files).ok THEN [ok |-> FALSE, new_data |-> new_data]
    ELSE parse_files(Tail(files), new_data \o Head(files).content)

\* a plausible slip: what was parsed before the failing file is ingested
upload_partial(store, files, uploaded_files, t) ==
    LET parsed == parse_files(uploaded_files, <<>>)
    IN [fault |-> IF parsed.ok THEN "none" ELSE "JSONDecodeError",
        all_data |-> store \o parsed.new_data,
        data_files |-> DictSet(files, data_file_name(t), json_dump(parsed.new_data))]

\* host_interface, the upload button: the store and the batch files afterwards
upload(store, files, uploaded_files, t) ==
    LET parsed == parse_files(uploaded_files, <<>>)
    IN IF parsed.ok
       THEN [fault |-> "none",
             all_data |-> store \o parsed.new_data,
             data_files |-> DictSet(files, data_file_name(t), json_dump(parsed.new_data))]
       ELSE [fault |-> "JSONDecodeError", all_data |-> store, data_files |-> files]

\* the number of samples the submitted files hold
RECURSIVE content_size(_)
content_size(files) ==
    IF files = <<>> THEN 0 ELSE Len(Head(files).content) + content_size(Tail(files))

\* ------------------------------------------------------------------- reset
\* a plausible slip: the policy image is deleted with the rest
clear_all_data_drops_policy(policy) ==
    [policy_file |-> <<>>, labels_file |-> <<>>, assignments_file |-> <<>>,
     data_files |-> EmptyDict, all_data |-> <<>>, user_assignments |-> EmptyDict,
     labels |-> EmptyDict]

\* clear_all_data: every file of the data directory is removed, except that the
\* policy image, if there was one, is opened before and saved again after
clear_all_data(policy) ==
    LET has_policy == policy # <<>>
    IN [policy_file |-> IF has_policy THEN <<image_save_png(image_open(policy[1]))>>
                        ELSE <<>>,
        labels_file |-> <<>>, assignments_file |-> <<>>, data_files |-> EmptyDict,
        all_data |-> <<>>, user_assignments |-> EmptyDict, labels |-> EmptyDict]

\* ----------------------------------------------------------- session start
\* the loop over glob("data_*.json"), taken in ascending order of file name,
\* which is the order of the uploads
RECURSIVE load_all_data(_, _)
load_all_data(files, t) ==
    IF \A later \in Seconds : later < t THEN <<>>
    ELSE (IF data_file_name(t) \in DOMAIN files
          THEN json_load(files[data_file_name(t)]) ELSE <<>>)
         \o load_all_data(files, t + 1)

init_all_data(files) == load_all_data(files, 0)
init_user_assignments(file) == Or(load_data(file), EmptyDict)
init_labels(file) == Or(load_data(file), EmptyDict)

VARIABLES
    all_data,          \* st.session_state.all_data
    user_assignments,  \* st.session_state.user_assignments
    labels,            \* st.session_state.labels
    policy_image,      \* st.session_state.policy_image: <<>> is None
    labels_file,       \* data/labels.json: <<>> absent, <<content>> present
    assignments_file,  \* data/assignments.json
    data_files,        \* data/data_<timestamp>.json: file name -> content
    policy_file,       \* data/policy_image.png
    clock,             \* datetime.now(), in whole seconds
    view,              \* what the last run of the script rendered
    pt                 \* a call of assign_data on its own: arguments and result

vars == <<all_data, user_assignments, labels, policy_image, labels_file,
          assignments_file, data_files, policy_file, clock, view, pt>>

\* ------------------------------------------------------------------- state
\* a page: the fault that ended the run, the "label saved" message of a labeler
\* run and the expander it was shown in, the host's progress lines, the rows
\* offered for download
Blank == [fault |-> "none", message |-> "", expander |-> -1, progress |-> <<>>,
          export |-> <<>>]
PtIdle == [pc |-> "idle", total_samples |-> 0, num_users |-> 1, result |-> EmptyDict]

\* what a host run shows below the buttons: the progress section
host_render(assignments, lbls) ==
    LET hp == host_progress(assignments, lbls)
    IN [Blank EXCEPT !.fault = hp.fault, !.progress = hp.progress]

\* what a labeler run shows below the sidebar: the message in the expander of idx
labeler_render(message, idx) ==
    [Blank EXCEPT !.message = message, !.expander = idx]

\* the session state after the initialisation block, from an empty data directory
Init ==
    /\ all_data = init_all_data(EmptyDict)
    /\ user_assignments = init_user_assignments(<<>>)
    /\ labels = init_labels(<<>>)
    /\ policy_image = get_policy_image(<<>>)
    /\ labels_file = <<>>
    /\ assignments_file = <<>>
    /\ data_files = EmptyDict
    /\ policy_file = <<>>
    /\ clock = 0
    /\ view = Blank
    /\ pt = PtIdle

\* a second passes
Tick ==
    /\ clock + 1 \in Seconds
    /\ clock' = clock + 1
    /\ UNCHANGED <<all_data, user_assignments, labels, policy_image, labels_file,
                   assignments_file, data_files, policy_file, view, pt>>

\* ------------------------------------------------------------- host runs
\* a run of host_interface with no button pressed
HostView ==
    /\ view' = host_render(user_assignments, labels)
    /\ UNCHANGED <<all_data, user_assignments, labels, policy_image, labels_file,
                   assignments_file, data_files, policy_file, clock, pt>>

\* the button that saves an uploaded policy image
HostSavePolicy(policy_img) ==
    /\ policy_file' = save_image(policy_img)
    /\ policy_image' = <<image_open(policy_file'[1])>>
    /\ view' = host_render(user_assignments, labels)
    /\ UNCHANGED <<all_data, user_assignments, labels, labels_file, assignments_file,
                   data_files, clock, pt>>

\* the reset button: clear_all_data, then st.rerun() runs the host page again
HostReset ==
    LET cleared == clear_all_data(policy_file)
    IN /\ policy_file' = cleared.policy_file
       /\ labels_file' = cleared.labels_file
       /\ assignments_file' = cleared.assignments_file
       /\ data_files' = cleared.data_files
       /\ all_data' = cleared.all_data
       /\ user_assignments' = cleared.user_assignments
       /\ labels' = cleared.labels
       /\ view' = host_render(cleared.user_assignments, cleared.labels)
       /\ UNCHANGED <<policy_image, clock, pt>>

\* the upload button, with files of the given shape submitted
HostUpload(shape) ==
    LET uploaded_files == uploaded(shape, Len(all_data))
        done == upload(all_data, data_files, uploaded_files, clock)
    IN /\ Len(all_data) + content_size(uploaded_files) <= MaxSamples
       /\ all_data' = done.all_data
       /\ data_files' = done.data_files
       /\ view' = IF done.fault = "none"
                  THEN host_render(user_assignments, labels)
                  ELSE [Blank EXCEPT !.fault = done.fault]
       /\ UNCHANGED <<user_assignments, labels, policy_image, labels_file,
                      assignments_file, policy_file, clock, pt>>

\* the partition button, with num_users entered
HostPartition(num_users) ==
    /\ all_data # <<>>
    /\ user_assignments' = assign_data(Len(all_data), num_users)
    /\ assignments_file' = save_data(user_assignments')
    /\ view' = host_render(user_assignments', labels)
    /\ UNCHANGED <<all_data, labels, policy_image, labels_file, data_files,
                   policy_file, clock, pt>>

\* the download button, which exists once the progress section was rendered
HostDownload ==
    /\ labels # EmptyDict
    /\ host_progress(user_assignments, labels).fault = "none"
    /\ view' = [host_render(user_assignments, labels)
                   EXCEPT !.export = <<save_labels_to_excel(all_data, labels)>>]
    /\ UNCHANGED <<all_data, user_assignments, labels, policy_image, labels_file,
                   assignments_file, data_files, policy_file, clock, pt>>

\* ---------------------------------------------------------- labeler runs
\* labeler_interface returns early: no data, or no assignment yet
LabelerWarning ==
    /\ all_data = <<>> \/ user_assignments = EmptyDict
    /\ view' = Blank
    /\ UNCHANGED <<all_data, user_assignments, labels, policy_image, labels_file,
                   assignments_file, data_files, policy_file, clock, pt>>

\* a labeler run in which no select box changed
LabelerView(user) ==
    /\ all_data # <<>>
    /\ user_assignments # EmptyDict
    /\ user \in DOMAIN user_assignments
    /\ view' = labeler_render("", -1)
    /\ UNCHANGED <<all_data, user_assignments, labels, policy_image, labels_file,
                   assignments_file, data_files, policy_file, clock, pt>>

\* a labeler run in which the select box of idx returns label
LabelerSelect(user, idx, label) ==
    /\ UNCHANGED <<all_data, user_assignments, policy_image, assignments_file,
                   data_files, policy_file, clock, pt>>
    /\ all_data # <<>>
    /\ user_assignments # EmptyDict
    /\ user \in DOMAIN user_assignments
    /\ \E k \in 1..Len(user_assignments[user]) : user_assignments[user][k] = idx
    /\ idx < Len(all_data)
    /\ view' = IF label # existing_label(labels, idx)
               THEN labeler_render("label_saved", idx)
               ELSE labeler_render("", -1)
    /\ LET written == set_label(labels, labels_file, user, idx, label, clock)
       IN /\ labels' = written.labels
          /\ labels_file' = written.labels_file

Select ==
    \E user \in DOMAIN user_assignments, idx \in 0..(MaxSamples - 1),
       label \in LabelChoices : LabelerSelect(user, idx, label)

Upload == \E shape \in UploadInputs : HostUpload(shape)

Next ==
    \/ Tick
    \/ HostView
    \/ \E policy_img \in UploadedImage : HostSavePolicy(policy_img)
    \/ HostReset
    \/ Upload
    \/ \E num_users \in NumUsersInputs : HostPartition(num_users)
    \/ HostDownload
    \/ LabelerWarning
    \/ \E user \in DOMAIN user_assignments : LabelerView(user)
    \/ Select

Spec == Init /\ [][Next]_vars

\* ------------------------------------------------- assign_data on its own
InitAssign ==
    /\ all_data = <<>>
    /\ user_assignments = EmptyDict
    /\ labels = EmptyDict
    /\ policy_image = <<>>
    /\ labels_file = <<>>
    /\ assignments_file = <<>>
    /\ data_files = EmptyDict
    /\ policy_file = <<>>
    /\ clock = 0
    /\ view = Blank
    /\ pt \in {[pc |-> "call", total_samples |-> t, num_users |-> n, result |-> EmptyDict] :
                 t \in 0..MaxTotal, n \in 1..MaxLabelers}

AssignCall ==
    /\ pt.pc = "call"
    /\ pt' = [pt EXCEPT !.pc = "done",
                        !.result = assign_data(pt.total_samples, pt.num_users)]
    /\ UNCHANGED <<all_data, user_assignments, labels, policy_image, labels_file,
                   assignments_file, data_files, policy_file, clock, view>>

NextAssign == AssignCall

SpecAssign == InitAssign /\ [][NextAssign]_vars

\* ------------------------------------------------------------------ claims
\* the entries of `seq` are consecutive ascending integers
Contiguous(seq) == \A j \in 1..(Len(seq) - 1) : seq[j + 1] = seq[j] + 1

\* the positions <<labeler, j>> of the map at which index x is assigned
Positions(assignments, x) ==
    {p \in UNION {{<<u, j>> : j \in 1..Len(assignments[u])} : u \in DOMAIN assignments} :
        assignments[p[1]][p[2]] = x}

\* the index sequences are contiguous and hold each index of 0..m-1 exactly once
\* and nothing else
Covers(assignments, m) ==
    /\ \A u \in DOMAIN assignments : Contiguous(assignments[u])
    /\ \A x \in 0..(m - 1) : Cardinality(Positions(assignments, x)) = 1
    /\ \A u \in DOMAIN assignments : \A j \in 1..Len(assignments[u]) :
           assignments[u][j] \in 0..(m - 1)

\* C1: for total_samples >= 0 and num_labelers >= 1, assign_data returns exactly
\* user_1..user_<num_labelers>; with base = total_samples div num_labelers each of
\* the first num_labelers-1 labelers gets the block of base indices starting at
\* (k-1)*base, the last labeler gets the base + total_samples mod num_labelers
\* remaining ones, and every index of 0..total_samples-1 is assigned exactly once;
\* (10,3) gives [0,1,2],[3,4,5],[6,7,8,9] and (0,1) gives {user_1: []}.
C1_Partition ==
    pt.pc = "done" =>
        LET t == pt.total_samples
            n == pt.num_users
            base == t \div n
            r == pt.result
        IN /\ DOMAIN r = {UserName(k) : k \in 1..n}
           /\ \A k \in 1..(n - 1) :
                  r[UserName(k)] = [j \in 1..base |-> (k - 1) * base + j - 1]
           /\ r[UserName(n)] = [j \in 1..(base + (t % n)) |-> (n - 1) * base + j - 1]
           /\ Covers(r, t)
           /\ (t = 10 /\ n = 3 =>
                  /\ r["user_1"] = <<0, 1, 2>>
                  /\ r["user_2"] = <<3, 4, 5>>
                  /\ r["user_3"] = <<6, 7, 8, 9>>)
           /\ (t = 0 /\ n = 1 => r["user_1"] = <<>>)

C1_Witness ==
    /\ pt.pc = "done"
    /\ pt.total_samples = 10
    /\ pt.num_users = 3
    /\ pt.result["user_3"] = <<6, 7, 8, 9>>

\* C2: the ledger starts empty; a labeling action on an index leaves an entry for
\* it exactly if the label chosen is not "unset" and touches no other entry;
\* choosing "unset" on an absent index changes nothing; a reset empties the
\* ledger; nothing else changes it; and no entry ever stores "unset" or no
\* label. So an index has an entry iff the most recent labeling action on it
\* since the last reset chose a label other than "unset".
C2_LedgerEntries ==
    /\ labels = EmptyDict
    /\ [][/\ \A k \in DOMAIN labels' : labels'[k].label \notin {unset, "None", ""}
          /\ \A user \in DOMAIN user_assignments, idx \in 0..(MaxSamples - 1),
                label \in LabelChoices :
                 LabelerSelect(user, idx, label) =>
                     /\ (Str(idx) \in DOMAIN labels') <=> (label # unset)
                     /\ (label = unset /\ Str(idx) \notin DOMAIN labels) => labels' = labels
                     /\ \A k \in ((DOMAIN labels) \cup (DOMAIN labels')) \ {Str(idx)} :
                            /\ k \in DOMAIN labels
                            /\ k \in DOMAIN labels'
                            /\ labels'[k] = labels[k]
          /\ HostReset => labels' = EmptyDict
          /\ labels' # labels => (HostReset \/ Select)
         ]_vars

\* a change of the select box of index 0 was saved and left no entry for it:
\* the entry that was there is gone (absent -> present -> absent)
C2_Witness ==
    /\ view.message = "label_saved"
    /\ view.expander = 0
    /\ Str(0) \notin DOMAIN labels
    /\ labels_file = save_data(labels)

\* C3 as stated: whenever labeler L selects a label v other than "unset" for
\* index i at time t, the entry of i is afterwards {v, L, t}, whatever it was.
C3_Original ==
    [][\A user \in DOMAIN user_assignments, idx \in 0..(MaxSamples - 1),
          label \in LabelChoices :
           (LabelerSelect(user, idx, label) /\ label # unset) =>
               /\ Str(idx) \in DOMAIN labels'
               /\ labels'[Str(idx)] = [label |-> label, user |-> user,
                                       timestamp |-> strftime_label(clock)]
      ]_vars

\* C3 amended: whenever labeler L selects for index i at time t a label v that is
\* not "unset" and differs from the label the ledger holds for i, the entry of i
\* is afterwards exactly {v, L, t}, whoever wrote the previous one.
C3_Overwrite ==
    [][\A user \in DOMAIN user_assignments, idx \in 0..(MaxSamples - 1),
          label \in LabelChoices :
           (/\ LabelerSelect(user, idx, label)
            /\ label # unset
            /\ label # existing_label(labels, idx)) =>
               /\ Str(idx) \in DOMAIN labels'
               /\ labels'[Str(idx)] = [label |-> label, user |-> user,
                                       timestamp |-> strftime_label(clock)]
      ]_vars

\* user_2 saved a label for index 1 at second 1, while index 0 still carries
\* what user_1 wrote at second 0
C3_Witness ==
    /\ view.message = "label_saved"
    /\ view.expander = 1
    /\ Str(0) \in DOMAIN labels
    /\ labels[Str(0)].user = "user_1"
    /\ labels[Str(0)].timestamp = strftime_label(0)
    /\ Str(1) \in DOMAIN labels
    /\ labels[Str(1)].user = "user_2"
    /\ labels[Str(1)].timestamp = strftime_label(1)

\* C4: no page ends in a division-by-zero fault, and every progress line, of the
\* host's progress section and of the sidebar of any labeler, for a labeler with
\* no assigned index reads completed=0, total=0, 0%.
C4_ProgressGuarded ==
    /\ view.fault # "ZeroDivisionError"
    /\ \A j \in 1..Len(view.progress) :
           view.progress[j].total = 0 =>
               view.progress[j].completed = 0 /\ view.progress[j].ratio = 0
    /\ \A user \in DOMAIN user_assignments :
           LET popup == show_info_popup(user, user_assignments[user], labels)
           IN /\ popup.fault = "none"
              /\ popup.total = 0 => popup.completed = 0 /\ popup.ratio = 0

\* C5: the export has one row per sample of the store, in the order of the store;
\* row i carries sample i's instruction and output and the label, labeler and
\* timestamp of ledger entry i if there is one, and three empty strings if not;
\* the rows offered for download are these rows.
C5_Export ==
    LET rows == save_labels_to_excel(all_data, labels)
    IN /\ Len(rows) = Len(all_data)
       /\ \A i \in 0..(Len(all_data) - 1) :
              /\ rows[i + 1].instruction = all_data[i + 1].instruction
              /\ rows[i + 1].output = all_data[i + 1].output
              /\ Str(i) \in DOMAIN labels =>
                     /\ rows[i + 1].label = labels[Str(i)].label
                     /\ rows[i + 1].labeled_by = labels[Str(i)].user
                     /\ rows[i + 1].timestamp = labels[Str(i)].timestamp
              /\ Str(i) \notin DOMAIN labels =>
                     /\ rows[i + 1].label = ""
                     /\ rows[i + 1].labeled_by = ""
                     /\ rows[i + 1].timestamp = ""
       /\ view.export # <<>> => view.export[1] = rows

\* a download of two rows, the first unlabeled and the second labeled
C5_Witness ==
    /\ view.export # <<>>
    /\ Len(view.export[1]) = 2
    /\ view.export[1][1].label = ""
    /\ view.export[1][2].label # ""
    /\ view.export[1][2].instruction = Sample(1).instruction

\* C6: a reset leaves the store, the assignment map and the ledger empty and
\* removes labels.json, assignments.json and every data_<timestamp>.json; a
\* policy image that existed before still exists and loads to the same picture,
\* so a session started afterwards loads empty stores and that picture.
C6_Reset ==
    [][HostReset =>
           /\ all_data' = <<>>
           /\ user_assignments' = EmptyDict
           /\ labels' = EmptyDict
           /\ labels_file' = <<>>
           /\ assignments_file' = <<>>
           /\ data_files' = EmptyDict
           /\ policy_file # <<>> =>
                  /\ policy_file' # <<>>
                  /\ get_policy_image(policy_file')[1].pixels
                        = get_policy_image(policy_file)[1].pixels
           /\ init_all_data(data_files') = <<>>
           /\ init_user_assignments(assignments_file') = EmptyDict
           /\ init_labels(labels_file') = EmptyDict
      ]_vars

\* after a reset with a policy image: everything is empty, and the image file,
\* uploaded as JPEG, is the PNG the reset saved again
C6_Witness ==
    /\ all_data = <<>>
    /\ user_assignments = EmptyDict
    /\ labels = EmptyDict
    /\ data_files = EmptyDict
    /\ policy_file # <<>>
    /\ policy_file[1].format = "PNG"
    /\ policy_image # <<>>
    /\ policy_image[1].pixels = policy_file[1].pixels

\* C7: the ledger a session would load at its start from labels.json (empty when
\* the file is absent) is the ledger in memory.
C7_LedgerPersisted == init_labels(labels_file) = labels

\* two entries in memory and in labels.json
C7_Witness ==
    /\ Cardinality(DOMAIN labels) = 2
    /\ labels_file # <<>>
    /\ json_load(labels_file[1]) = labels

\* C8: an upload in which a file fails to parse changes neither the store nor
\* the batch files nor the assignment map nor the ledger and their files.
C8_NoPartialUpload ==
    [][\A shape \in UploadInputs :
           (HostUpload(shape) /\ ~parse_files(uploaded(shape, Len(all_data)), <<>>).ok) =>
               /\ view'.fault = "JSONDecodeError"
               /\ UNCHANGED <<all_data, data_files, user_assignments, labels,
                              labels_file, assignments_file>>
      ]_vars

\* a failed upload after a successful one
C8_Witness ==
    /\ view.fault = "JSONDecodeError"
    /\ Len(all_data) = 1
    /\ Cardinality(DOMAIN data_files) = 1

\* C9 as stated: whenever the assignment map is not empty, its index sequences are
\* contiguous, do not overlap and cover exactly 0..total_samples-1 for the
\* current size of the store.
C9_Original ==
    user_assignments # EmptyDict => Covers(user_assignments, Len(all_data))

\* C9 amended: a partitioning leaves a map that covers exactly the store as it
\* is then, and only a partitioning or a reset changes the map; so whenever the
\* map is not empty it covers exactly 0..m-1 for the size m the store had at the
\* last partitioning, 1 <= m <= the current size of the store.
C9_Amended ==
    /\ [](user_assignments # EmptyDict =>
              \E m \in 1..Len(all_data) : Covers(user_assignments, m))
    /\ [][/\ (\E num_users \in NumUsersInputs : HostPartition(num_users)) =>
                 Covers(user_assignments', Len(all_data'))
          /\ user_assignments' # user_assignments =>
                 \/ HostReset
                 \/ \E num_users \in NumUsersInputs : HostPartition(num_users)
         ]_vars

\* a map made for one sample while the store holds two
C9_Witness ==
    /\ user_assignments # EmptyDict
    /\ Covers(user_assignments, 1)
    /\ Len(all_data) = 2

\* C10: every successful upload adds one batch file and changes no earlier one,
\* and the batch files, concatenated in the order of the uploads, are the store.
C10_BatchFiles ==
    [][\A shape \in UploadInputs :
           (HostUpload(shape) /\ parse_files(uploaded(shape, Len(all_data)), <<>>).ok) =>
               /\ Cardinality(DOMAIN data_files') = Cardinality(DOMAIN data_files) + 1
               /\ \A f \in DOMAIN data_files :
                      f \in DOMAIN data_files' /\ data_files'[f] = data_files[f]
               /\ init_all_data(data_files') = all_data'
      ]_vars

====
